---- MODULE Spec2Model ----
(***************************************************************************)
(* Health endpoints of the QuickEx backend: HealthService.readiness()      *)
(* runs checkEnv() and checkSupabase(), each raced against a timer by      *)
(* withTimeout(), collects them with Promise.allSettled and folds them     *)
(* into {ready, checks}.                                                   *)
(*                                                                         *)
(* The model follows Node's event loop: a request, a timer callback, the   *)
(* completion of the network probe and a change of process.env are         *)
(* macrotasks, which run only when the microtask queue is empty; promise   *)
(* reactions are microtasks, run in FIFO order.  Time is in milliseconds   *)
(* and does not advance past a timer that is due.                          *)
(***************************************************************************)
EXTENDS Integers, Sequences, FiniteSets, TLC

VARIABLES env, now, pc, invokedAt, chk, probe, timer, w, settled, report,
          microtasks, unhandled,
          clients, probes, response,
          appVersion, startedAt, live

\* what checkSupabase did of each invocation: createClient calls, queries
\* issued, and what the query answered
calls == <<clients, probes, response>>
\* process.env.APP_VERSION, HealthService.startedAt and the last liveness report
svc == <<appVersion, startedAt, live>>

vars == <<env, now, pc, invokedAt, chk, probe, timer, w, settled, report,
          microtasks, unhandled, calls, svc>>

(* ------------------------------ bounds -------------------------------- *)

\* readiness() invocations in one behaviour (they may overlap)
MaxInv == 2
\* the clock stops here; no invocation starts that could not time out by then
MaxTime == 2250
\* the longest the clock advances in one step
Step == 750
\* invocations of the runner over arbitrary checks (SpecEngine)
MaxRuns == 1

(* --------------------------- program constants ------------------------ *)

TIMEOUT_MS == 1500

Invs == 1..MaxInv
\* index 1 is the array's element 0 (the env check), index 2 its element 1
Slots == {1, 2}

(* ----------------------------- JS values ------------------------------ *)

Undefined == [t |-> "undefined"]
Str(s) == [t |-> "string", v |-> s]
Obj(fields) == [t |-> "object", p |-> fields]
\* new Error(m)
Error(m) == Obj([message |-> Str(m)])

IsNullish(v) == v.t \in {"undefined", "null"}
\* !!v
Truthy(v) == \/ v.t = "object"
             \/ v.t = "string" /\ v.v # ""
\* v.f of a non-nullish v
Get(v, f) == IF v.t = "object" /\ f \in DOMAIN v.p THEN v.p[f] ELSE Undefined
\* v?.f
OptGet(v, f) == IF IsNullish(v) THEN Undefined ELSE Get(v, f)
\* a ?? b
Nullish(a, b) == IF IsNullish(a) THEN b ELSE a

\* the object literals {name, status} and {name, status, error}
Result(name, status) == Obj([name |-> Str(name), status |-> Str(status)])
ResultErr(name, status, error) ==
    Obj([name |-> Str(name), status |-> Str(status), error |-> error])

(* ------------------------------ promises ------------------------------ *)

NoPromise == [st |-> "none"]
Pending == [st |-> "pending"]
Fulfilled(v) == [st |-> "fulfilled", value |-> v]
Rejected(r) == [st |-> "rejected", reason |-> r]
IsSettled(p) == p.st \in {"fulfilled", "rejected"}

\* a mutable holder instead of a promise: a later resolve/reject overwrites
CanSettleAlways(p) == TRUE
\* resolve() and reject() act on a pending promise only
CanSettle(p) == p.st = "pending"

(* ------------------------------ process.env --------------------------- *)

requiredVars == <<"SUPABASE_URL", "SUPABASE_SERVICE_ROLE_KEY">>
EnvKeys == {requiredVars[n] : n \in 1..Len(requiredVars)}
EnvValues == {"", "set"}
\* process.env: the keys that are set, each to a string
Envs == UNION {[D -> EnvValues] : D \in SUBSET EnvKeys}
\* process.env[key]
EnvGet(e, key) == IF key \in DOMAIN e THEN Str(e[key]) ELSE Undefined

RECURSIVE Join(_, _)
\* Array.prototype.join
Join(seq, sep) ==
    IF seq = <<>> THEN ""
    ELSE IF Len(seq) = 1 THEN seq[1]
    ELSE seq[1] \o sep \o Join(Tail(seq), sep)

\* the filter callback of checkEnv, negated twice wrong: keeps the keys that are set
IsMissingInverted(e, key) == Truthy(EnvGet(e, key))
\* (key) => !process.env[key] || process.env[key]?.length === 0
IsMissing(e, key) ==
    \/ ~Truthy(EnvGet(e, key))
    \/ (key \in DOMAIN e /\ Len(e[key]) = 0)

\* checkEnv(): synchronous to its end, the promise it returns is fulfilled
checkEnv(e) ==
    LET missing == SelectSeq(requiredVars, LAMBDA key : IsMissing(e, key))
    IN  IF Len(missing) > 0
        THEN ResultErr("env", "degraded",
                       Str("Missing env vars: " \o Join(missing, ", ")))
        ELSE Result("env", "ok")

(* ------------------------------ checkSupabase ------------------------- *)

\* a guard that looks at the URL alone
SupabaseConfiguredUrlOnly(e) == Truthy(EnvGet(e, "SUPABASE_URL"))
\* the guard of supabase.check.ts line 5, negated
SupabaseConfigured(e) ==
    /\ Truthy(EnvGet(e, "SUPABASE_URL"))
    /\ Truthy(EnvGet(e, "SUPABASE_SERVICE_ROLE_KEY"))

\* values a library call may throw or reject with
Thrown == {Error("connection refused"), Obj([code |-> Str("ECONNREFUSED")]),
           Undefined, Obj([message |-> Obj([code |-> Str("EPROTO")])])}
\* the error member of the probe's response when it is set: the parsed body
\* of the server's answer, whose message is a string or anything else
ProbeErrors == {Obj([message |-> Str("permission denied")]),
                Obj([code |-> Str("42501")]),
                Obj([message |-> Obj([hint |-> Str("PGRST301")])])}
\* what createClient() does: returns a client or throws
ClientOutcomes == {[kind |-> "client"]} \cup
                  {[kind |-> "throws", err |-> x] : x \in {Error("Invalid URL")}}
\* what the awaited query does: resolves {error: null}, resolves {error: e},
\* or rejects
ProbeOutcomes == {[kind |-> "data"]} \cup
                 {[kind |-> "error", err |-> x] : x \in ProbeErrors} \cup
                 {[kind |-> "throws", err |-> x] : x \in Thrown}

\* the catch block without its ?? 'Supabase unreachable' fallback
supabaseCatchNoFallback(err) ==
    ResultErr("supabase", "degraded", OptGet(err, "message"))
\* the catch block of checkSupabase
supabaseCatch(err) ==
    ResultErr("supabase", "degraded",
              Nullish(OptGet(err, "message"), Str("Supabase unreachable")))

\* createClient called before the configuration guard
supabaseSyncEager(e, c) ==
    IF c.kind = "throws"
    THEN [promise |-> Fulfilled(supabaseCatch(c.err)), probe |-> "none",
          clients |-> 1, probes |-> 0]
    ELSE IF ~SupabaseConfigured(e)
    THEN [promise |-> Fulfilled(ResultErr("supabase", "degraded",
                                          Str("Supabase env not configured"))),
          probe |-> "none", clients |-> 1, probes |-> 0]
    ELSE [promise |-> Pending, probe |-> "inflight", clients |-> 1, probes |-> 1]
\* checkSupabase() up to its first suspension: the promise it returned, whether
\* the probe is out, and how many clients and probes it made
supabaseSync(e, c) ==
    IF ~SupabaseConfigured(e)
    THEN [promise |-> Fulfilled(ResultErr("supabase", "degraded",
                                          Str("Supabase env not configured"))),
          probe |-> "none", clients |-> 0, probes |-> 0]
    ELSE IF c.kind = "throws"
    THEN [promise |-> Fulfilled(supabaseCatch(c.err)), probe |-> "none",
          clients |-> 1, probes |-> 0]
    ELSE [promise |-> Pending, probe |-> "inflight", clients |-> 1, probes |-> 1]

\* the response's error member is not looked at
supabaseResumeIgnoreError(o) ==
    IF o.kind = "throws" THEN supabaseCatch(o.err)
    ELSE Result("supabase", "ok")
\* checkSupabase() from the resumption of its await to its return
supabaseResume(o) ==
    IF o.kind = "throws" THEN supabaseCatch(o.err)
    ELSE IF o.kind = "error" /\ Truthy(o.err) THEN supabaseCatch(o.err)
    ELSE Result("supabase", "ok")

\* the body without its try/catch: a failed probe rejects the returned promise
supabaseSettleNoCatch(o) ==
    IF o.kind = "throws" \/ (o.kind = "error" /\ Truthy(o.err))
    THEN Rejected(o.err)
    ELSE Fulfilled(Result("supabase", "ok"))
\* how the promise checkSupabase() returned settles once the query has answered:
\* every path of the try/catch returns, so it fulfils
supabaseSettle(o) == Fulfilled(supabaseResume(o))

(* ------------------------------ helpers ------------------------------- *)

\* promise.then(A) alone: a rejection has no handler
thenOnly(p) ==
    IF p.st = "fulfilled"
    THEN [clear |-> TRUE, settle |-> Fulfilled(p.value), unhandled |-> FALSE]
    ELSE [clear |-> FALSE, settle |-> Pending, unhandled |-> TRUE]
\* the callbacks settle the wrapper and leave the timer alone
thenCatchNoClear(p) ==
    IF p.st = "fulfilled"
    THEN [clear |-> FALSE, settle |-> Fulfilled(p.value), unhandled |-> FALSE]
    ELSE [clear |-> FALSE, settle |-> Rejected(p.reason), unhandled |-> FALSE]
\* promise.then(A).catch(B) of withTimeout: what the reaction does once the
\* promise is settled
thenCatch(p) ==
    IF p.st = "fulfilled"
    THEN [clear |-> TRUE, settle |-> Fulfilled(p.value), unhandled |-> FALSE]
    ELSE [clear |-> TRUE, settle |-> Rejected(p.reason), unhandled |-> FALSE]

\* the timer's callback rejecting with no Error object
timerCallbackBare == Rejected(Undefined)
\* the timer's callback: () => reject(new Error('timeout'))
timerCallback == Rejected(Error("timeout"))

\* the timer armed with twice the delay
timerDueDouble(t) == t + 2 * TIMEOUT_MS
\* setTimeout(..., ms) called at time t with ms = TIMEOUT_MS: when it is due
timerDue(t) == t + TIMEOUT_MS

\* maps a rejection to nothing
mapResultDrop(result) ==
    IF result.st = "fulfilled" THEN result.value ELSE Undefined
\* the rejected branch without the ?? 'failed' fallback
mapResultNoFallback(result) ==
    IF result.st = "fulfilled" THEN result.value
    ELSE ResultErr("unknown", "degraded", OptGet(result.reason, "message"))
\* mapResult(result)
mapResult(result) ==
    IF result.st = "fulfilled" THEN result.value
    ELSE ResultErr("unknown", "degraded",
                   Nullish(OptGet(result.reason, "message"), Str("failed")))

\* mapped.some((c) => c.status === 'ok')
isReadySome(mapped) ==
    /\ Len(mapped) > 0
    /\ \E n \in 1..Len(mapped) : Get(mapped[n], "status") = Str("ok")
\* mapped.every((c) => c.status === 'ok')
isReady(mapped) ==
    \A n \in 1..Len(mapped) : Get(mapped[n], "status") = Str("ok")

NotSettled == [st |-> "none"]
\* results collected in completion order, newest first
allSettledUnshift(arr, s, p) ==
    IF \E n \in Slots : arr[n] = NotSettled
    THEN LET free == CHOOSE n \in Slots :
                        /\ arr[n] = NotSettled
                        /\ \A m \in Slots : arr[m] = NotSettled => m <= n
         IN  [arr EXCEPT ![free] = p]
    ELSE arr
\* Promise.allSettled stores the outcome of its s-th input at index s
allSettledPut(arr, s, p) == [arr EXCEPT ![s] = p]

\* only the first check is started before the await
launchedFirstOnly == {1}
\* the elements of the array literal passed to Promise.allSettled: both calls
\* are evaluated before the await
launched == Slots

(* ------------------------------- state -------------------------------- *)

NoReport == [t |-> "none"]
NoResponse == [kind |-> "none"]
Timer(st, due) == [st |-> st, due |-> due]

\* the state once HealthService is constructed, at time t
InitAt(t) ==
    /\ env \in Envs
    /\ now = t
    /\ startedAt = t
    /\ appVersion = Undefined
    /\ live = NoReport
    /\ clients = [i \in Invs |-> 0]
    /\ probes = [i \in Invs |-> 0]
    /\ response = [i \in Invs |-> NoResponse]
    /\ pc = [i \in Invs |-> "idle"]
    /\ invokedAt = [i \in Invs |-> 0]
    /\ chk = [i \in Invs |-> [s \in Slots |-> NoPromise]]
    /\ probe = [i \in Invs |-> "none"]
    /\ timer = [i \in Invs |-> [s \in Slots |-> Timer("none", 0)]]
    /\ w = [i \in Invs |-> [s \in Slots |-> NoPromise]]
    /\ settled = [i \in Invs |-> [s \in Slots |-> NotSettled]]
    /\ report = [i \in Invs |-> NoReport]
    /\ microtasks = <<>>
    /\ unhandled = FALSE

Init == InitAt(0)

\* allSettled's reaction kept in one place for all invocations: the first's
JobShared(k, i, s) == [k |-> k, i |-> IF k = "settled" THEN 1 ELSE i, s |-> s]
\* a promise reaction job: the callback's closure holds the invocation's own
\* locals (promise, t, resolve, reject; allSettled's result array)
Job(k, i, s) == [k |-> k, i |-> i, s |-> s]

\* the reactions queued at once for the checks whose promise is already settled
ReadyReactions(i, ps) ==
    LET js == [s \in Slots |->
                  IF s \in launched /\ IsSettled(ps[s])
                  THEN <<Job("react", i, s)>> ELSE <<>>]
    IN  js[1] \o js[2]

\* readiness() up to its await, for the promises ps its two checks returned:
\* withTimeout arms a timer per check and chains on the check's promise
Launch(i, ps) ==
    /\ pc[i] = "idle"
    /\ \A j \in Invs : j < i => pc[j] # "idle"
    /\ microtasks = <<>>
    /\ now + TIMEOUT_MS <= MaxTime
    /\ pc' = [pc EXCEPT ![i] = "awaiting"]
    /\ invokedAt' = [invokedAt EXCEPT ![i] = now]
    /\ chk' = [chk EXCEPT ![i] =
                  [s \in Slots |-> IF s \in launched THEN ps[s] ELSE NoPromise]]
    /\ timer' = [timer EXCEPT ![i] =
                  [s \in Slots |-> IF s \in launched
                                   THEN Timer("armed", timerDue(now))
                                   ELSE Timer("none", 0)]]
    /\ w' = [w EXCEPT ![i] =
                  [s \in Slots |-> IF s \in launched THEN Pending ELSE NoPromise]]
    /\ microtasks' = ReadyReactions(i, ps)
    /\ UNCHANGED <<env, now, settled, report, unhandled, svc>>

\* a checkEnv() that has not returned by the time readiness() awaits
envPromisePending(e) == Pending
\* the promise a call of checkEnv() returns: an async function without an
\* await has run to its return (or to its catch's) when the call returns
envPromise(e) == Fulfilled(checkEnv(e))

\* GET /health/ready: HealthService.readiness() with checkEnv(), checkSupabase()
Readiness(i) ==
    \E c \in ClientOutcomes :
        LET sb == supabaseSync(env, c)
        IN  /\ Launch(i, [s \in Slots |->
                             IF s = 1 THEN envPromise(env) ELSE sb.promise])
            /\ probe' = [probe EXCEPT ![i] = sb.probe]
            /\ clients' = [clients EXCEPT ![i] = @ + sb.clients]
            /\ probes' = [probes EXCEPT ![i] = @ + sb.probes]
            /\ UNCHANGED response

\* the awaited query of checkSupabase completes; the function runs to its return
ProbeComplete(i) ==
    \E o \in ProbeOutcomes :
        /\ microtasks = <<>>
        /\ probe[i] = "inflight"
        /\ probe' = [probe EXCEPT ![i] = "done"]
        /\ response' = [response EXCEPT ![i] = o]
        /\ chk' = [chk EXCEPT ![i][2] = supabaseSettle(o)]
        /\ microtasks' = <<Job("react", i, 2)>>
        /\ UNCHANGED <<env, now, pc, invokedAt, timer, w, settled, report, unhandled,
                       clients, probes, svc>>

\* the .then/.catch reaction of withTimeout on a settled check promise
CheckReaction ==
    /\ microtasks # <<>>
    /\ Head(microtasks).k = "react"
    /\ LET i == Head(microtasks).i
           s == Head(microtasks).s
           r == thenCatch(chk[i][s])
           wins == IsSettled(r.settle) /\ CanSettle(w[i][s])
       IN  /\ timer' = [timer EXCEPT ![i][s] =
                          IF r.clear /\ @.st = "armed" THEN Timer("cleared", @.due)
                          ELSE @]
           /\ w' = [w EXCEPT ![i][s] = IF wins THEN r.settle ELSE @]
           /\ microtasks' = IF wins
                            THEN Append(Tail(microtasks), Job("settled", i, s))
                            ELSE Tail(microtasks)
           /\ unhandled' = (unhandled \/ r.unhandled)
    /\ UNCHANGED <<env, now, pc, invokedAt, chk, probe, settled, report, calls, svc>>

\* setTimeout's callback of withTimeout runs
TimerFire(i, s) ==
    /\ microtasks = <<>>
    /\ timer[i][s].st = "armed"
    /\ timer[i][s].due <= now
    /\ timer' = [timer EXCEPT ![i][s] = Timer("fired", @.due)]
    /\ LET wins == CanSettle(w[i][s])
       IN  /\ w' = [w EXCEPT ![i][s] = IF wins THEN timerCallback ELSE @]
           /\ microtasks' = IF wins THEN <<Job("settled", i, s)>> ELSE <<>>
    /\ UNCHANGED <<env, now, pc, invokedAt, chk, probe, settled, report, unhandled,
                   calls, svc>>

\* Promise.allSettled's reaction on one of its inputs
AllSettledReaction ==
    /\ microtasks # <<>>
    /\ Head(microtasks).k = "settled"
    /\ LET i == Head(microtasks).i
           s == Head(microtasks).s
           arr == allSettledPut(settled[i], s, w[i][s])
       IN  /\ settled' = [settled EXCEPT ![i] = arr]
           /\ microtasks' = IF \A n \in launched : arr[n] # NotSettled
                            THEN Append(Tail(microtasks), Job("resume", i, 0))
                            ELSE Tail(microtasks)
    /\ UNCHANGED <<env, now, pc, invokedAt, chk, probe, timer, w, report, unhandled,
                   calls, svc>>

\* readiness() after its await: map, every, return
ReadinessResume ==
    /\ microtasks # <<>>
    /\ Head(microtasks).k = "resume"
    /\ LET i == Head(microtasks).i
           checks == [n \in 1..Cardinality(launched) |-> settled[i][n]]
           mapped == [n \in 1..Len(checks) |-> mapResult(checks[n])]
       IN  IF \E n \in 1..Len(mapped) : IsNullish(mapped[n])
           THEN \* c.status of undefined: a TypeError rejects readiness()
                /\ pc' = [pc EXCEPT ![i] = "rejected"]
                /\ UNCHANGED report
           ELSE /\ pc' = [pc EXCEPT ![i] = "fulfilled"]
                /\ report' = [report EXCEPT ![i] =
                                [ready |-> isReady(mapped), checks |-> mapped]]
    /\ microtasks' = Tail(microtasks)
    /\ UNCHANGED <<env, now, invokedAt, chk, probe, timer, w, settled, unhandled,
                   calls, svc>>

ArmedDues == {timer[q[1]][q[2]].due :
                 q \in {x \in Invs \X Slots : timer[x[1]][x[2]].st = "armed"}}
Min(S) == CHOOSE x \in S : \A y \in S : x <= y

\* time passes, up to the next due timer
Tick ==
    /\ microtasks = <<>>
    /\ now < MaxTime
    /\ \A d \in ArmedDues : now < d
    /\ now' = Min({now + Step, MaxTime} \cup ArmedDues)
    /\ UNCHANGED <<env, pc, invokedAt, chk, probe, timer, w, settled, report,
                   microtasks, unhandled, calls, svc>>

\* the configuration loader (or anyone) changes process.env between tasks;
\* only a later invocation reads it, so the model stops changing it after the last
SetEnv ==
    /\ microtasks = <<>>
    /\ \E i \in Invs : pc[i] = "idle"
    /\ env' \in Envs
    /\ env' # env
    /\ UNCHANGED <<now, pc, invokedAt, chk, probe, timer, w, settled, report,
                   microtasks, unhandled, calls, svc>>

Next ==
    \/ \E i \in Invs : Readiness(i)
    \/ \E i \in Invs : ProbeComplete(i)
    \/ CheckReaction
    \/ \E i \in Invs, s \in Slots : TimerFire(i, s)
    \/ AllSettledReaction
    \/ ReadinessResume
    \/ Tick
    \/ SetEnv

Spec == Init /\ [][Next]_vars

\* the microtask at the head of the queue
RunMicrotask == CheckReaction \/ AllSettledReaction \/ ReadinessResume
\* a timer that is due
RunTimer == \E i \in Invs, s \in Slots : TimerFire(i, s)

\* the event loop keeps running: a queued reaction is run, a due timer's callback
\* is run, and time passes
Fairness ==
    /\ WF_vars(RunMicrotask)
    /\ WF_vars(RunTimer)
    /\ WF_vars(Tick)

\* SetEnv where only MaxRuns invocations are made: a change matters while one
\* of them is still to come
SetEnvRuns ==
    /\ \E i \in Invs : i <= MaxRuns /\ pc[i] = "idle"
    /\ SetEnv

\* the requests of Next, the readiness() invocations limited to MaxRuns
NextFair ==
    \/ \E i \in Invs : i <= MaxRuns /\ Readiness(i)
    \/ \E i \in Invs : ProbeComplete(i)
    \/ CheckReaction
    \/ \E i \in Invs, s \in Slots : TimerFire(i, s)
    \/ AllSettledReaction
    \/ ReadinessResume
    \/ Tick
    \/ SetEnvRuns

FairSpec == Init /\ [][NextFair]_vars /\ Fairness

(* ---- the runner alone: readiness() over two checks that behave anyhow ---- *)

\* values a check may fulfil with
CheckValues == {Result("a", "ok"), ResultErr("b", "degraded", Str("down"))}
\* what a check may have done by the time its promise is handed to withTimeout
\* (an async function that throws before its first await returns a rejected
\* promise), and how it may settle later
CheckOutcomes == {Fulfilled(v) : v \in CheckValues} \cup
                 {Rejected(r) : r \in Thrown}

\* readiness() over any two checks
RunChecks(i) ==
    \E p1, p2 \in CheckOutcomes \cup {Pending} :
        /\ i <= MaxRuns
        /\ Launch(i, [s \in Slots |-> IF s = 1 THEN p1 ELSE p2])
        /\ UNCHANGED <<probe, calls>>

\* a check that was pending settles
CheckSettles(i, s) ==
    \E o \in CheckOutcomes :
        /\ microtasks = <<>>
        /\ chk[i][s] = Pending
        /\ chk' = [chk EXCEPT ![i][s] = o]
        /\ microtasks' = <<Job("react", i, s)>>
        /\ UNCHANGED <<env, now, pc, invokedAt, probe, timer, w, settled, report,
                       unhandled, calls, svc>>

InitEngine == Init /\ DOMAIN env = {}

NextEngine ==
    \/ \E i \in Invs : RunChecks(i)
    \/ \E i \in Invs, s \in Slots : CheckSettles(i, s)
    \/ CheckReaction
    \/ \E i \in Invs, s \in Slots : TimerFire(i, s)
    \/ AllSettledReaction
    \/ ReadinessResume
    \/ Tick

SpecEngine == InitEngine /\ [][NextEngine]_vars

(* ------------- the whole service: GET /health beside GET /health/ready ---- *)

\* when the process may have constructed HealthService
BootTimes == {0, 400}
\* process.env.APP_VERSION: unset, or a version string
VersionValues == {Undefined, Str("1.4.2")}

\* status taken from the configuration instead of the literal
livenessByConfig(t, s0, v) ==
    [status |-> IF IsNullish(v) THEN "degraded" ELSE "ok",
     version |-> Nullish(v, Undefined),
     uptime |-> (t - s0) \div 1000]
\* uptime counted from the epoch instead of from startedAt
livenessNoStart(t, s0, v) ==
    [status |-> "ok", version |-> Nullish(v, Undefined), uptime |-> t \div 1000]
\* liveness() called at Date.now() = t, with startedAt = s0 and
\* process.env.APP_VERSION = v; Date.now() is read off the event loop's clock,
\* which does not go back
liveness(t, s0, v) ==
    [status |-> "ok",
     version |-> Nullish(v, Undefined),
     uptime |-> (t - s0) \div 1000]

\* GET /health: HealthController.getHealth() returns healthService.liveness()
Liveness ==
    /\ microtasks = <<>>
    /\ live' = liveness(now, startedAt, appVersion)
    /\ UNCHANGED <<env, now, pc, invokedAt, chk, probe, timer, w, settled, report,
                   microtasks, unhandled, calls, appVersion, startedAt>>

\* process.env.APP_VERSION is set or unset between tasks
SetVersion ==
    /\ microtasks = <<>>
    /\ appVersion' \in VersionValues
    /\ appVersion' # appVersion
    /\ UNCHANGED <<env, now, pc, invokedAt, chk, probe, timer, w, settled, report,
                   microtasks, unhandled, calls, startedAt, live>>

InitLive == \E t \in BootTimes : InitAt(t)

NextLive ==
    \/ \E i \in Invs : i <= MaxRuns /\ Readiness(i)
    \/ \E i \in Invs : ProbeComplete(i)
    \/ CheckReaction
    \/ \E i \in Invs, s \in Slots : TimerFire(i, s)
    \/ AllSettledReaction
    \/ ReadinessResume
    \/ Tick
    \/ SetEnvRuns
    \/ Liveness
    \/ SetVersion

SpecLive == InitLive /\ [][NextLive]_vars

(* ------------------------------ properties ---------------------------- *)

Done(i) == report[i] # NoReport
\* a microtask of invocation i is queued
Queued(i) == \E n \in 1..Len(microtasks) : microtasks[n].i = i
\* the withTimeout reaction on check s of invocation i has not run yet
ReactQueued(i, s) == \E n \in 1..Len(microtasks) : microtasks[n] = Job("react", i, s)
TimeoutResult == ResultErr("unknown", "degraded", Str("timeout"))
StatusOf(c) == c.p.status.v

\* C1: readiness() never rejects, whatever its checks do (fulfil, reject, never
\* settle): once it has returned, it has fulfilled with a report {ready, checks},
\* and while it is awaiting, something is left that will move it on (a queued
\* reaction, or an armed timer on a slot that is still open).
C1_ReadinessTotal ==
    \A i \in Invs :
        /\ pc[i] # "rejected"
        /\ pc[i] = "fulfilled" =>
              /\ Done(i)
              /\ report[i].ready \in BOOLEAN
              /\ Len(report[i].checks) = 2
        /\ pc[i] = "awaiting" =>
              \/ Queued(i)
              \/ \E s \in Slots : w[i][s] = Pending /\ timer[i][s].st = "armed"

\* one check rejected before its timer, the other never settled: a report all the same
C1_Witness ==
    \E i \in Invs :
        /\ pc[i] = "fulfilled"
        /\ chk[i][1].st = "rejected" /\ timer[i][1].st = "cleared"
        /\ chk[i][2] = Pending /\ timer[i][2].st = "fired"

\* C2: the report holds exactly one result per check, in input order: entry s
\* is the outcome of the s-th check's race, whichever race settled first.
C2_InputOrder ==
    \A i \in Invs :
        /\ \A s \in Slots : settled[i][s] # NotSettled => settled[i][s] = w[i][s]
        /\ Done(i) =>
              /\ Len(report[i].checks) = 2
              /\ \A s \in Slots :
                    /\ w[i][s].st = "fulfilled" => report[i].checks[s] = w[i][s].value
                    /\ w[i][s].st = "rejected" =>
                          report[i].checks[s].p.name = Str("unknown")

\* the second check decided its slot itself, the first was decided by its timer
C2_Witness ==
    \E i \in Invs :
        /\ Done(i)
        /\ timer[i][1].st = "fired" /\ timer[i][2].st = "cleared"
        /\ chk[i][2].st = "fulfilled"
        /\ report[i].checks[1] = TimeoutResult
        /\ report[i].checks[2] = chk[i][2].value

\* C3: in every report, ready is true exactly when every entry of the returned
\* checks has status 'ok'; over no entries it is true.
C3_ReadyIffAllOk ==
    /\ isReady(<<>>)
    /\ \A i \in Invs :
          Done(i) =>
              (report[i].ready <=>
                  \A n \in 1..Len(report[i].checks) :
                      StatusOf(report[i].checks[n]) = "ok")

C3_Witness ==
    \E i, j \in Invs :
        /\ Done(i) /\ report[i].ready
        /\ Done(j) /\ ~report[j].ready
        /\ StatusOf(report[j].checks[1]) = "ok"

\* C4: a slot whose timer fired (1500 ms after the invocation, the check not
\* settled by then) is exactly {name: 'unknown', status: 'degraded',
\* error: 'timeout'} in the report, and the report has ready = false.
C4_TimeoutSlot ==
    \A i \in Invs, s \in Slots :
        timer[i][s].st = "fired" =>
            /\ timer[i][s].due = invokedAt[i] + 1500
            /\ now >= timer[i][s].due
            /\ w[i][s] = Rejected(Error("timeout"))
            /\ Done(i) =>
                  /\ report[i].checks[s] =
                        Obj([name |-> Str("unknown"), status |-> Str("degraded"),
                             error |-> Str("timeout")])
                  /\ report[i].ready = FALSE

C4_Witness ==
    \E i \in Invs :
        /\ Done(i)
        /\ timer[i][2].st = "fired"
        /\ probe[i] = "inflight"

\* C5: every readiness() invocation completes, no later than timeoutMs after
\* it started, also when a check never settles.
C5_Bounded ==
    /\ [](\A i \in Invs : pc[i] = "awaiting" => now <= invokedAt[i] + TIMEOUT_MS)
    /\ \A i \in Invs : (pc[i] = "awaiting") ~> (pc[i] = "fulfilled")

\* returned at the timeout while the probe is still in flight
C5_Witness ==
    \E i \in Invs :
        /\ pc[i] = "fulfilled"
        /\ chk[i][2] = Pending /\ probe[i] = "inflight"
        /\ now = invokedAt[i] + TIMEOUT_MS

\* the message a failure carries, or the fallback
FailureMessage(r) ==
    IF r.t = "object" /\ "message" \in DOMAIN r.p
                      /\ r.p.message.t \notin {"undefined", "null"}
    THEN r.p.message ELSE Str("failed")

\* C6: a check that rejects before its timer fires gives the slot
\* {name: 'unknown', status: 'degraded', error: m}, m the failure's message or
\* 'failed' when it has none; readiness() does not reject.
C6_RejectedSlot ==
    \A i \in Invs, s \in Slots :
        (/\ chk[i][s].st = "rejected"
         /\ timer[i][s].st # "fired"
         /\ ~ReactQueued(i, s)) =>
            /\ timer[i][s].st = "cleared"
            /\ w[i][s] = Rejected(chk[i][s].reason)
            /\ pc[i] # "rejected"
            /\ Done(i) =>
                  report[i].checks[s] =
                      Obj([name |-> Str("unknown"), status |-> Str("degraded"),
                           error |-> FailureMessage(chk[i][s].reason)])

\* a failure with a message and one without, both reported
C6_Witness ==
    \E i \in Invs :
        /\ Done(i)
        /\ chk[i][1] = Rejected(Error("connection refused"))
        /\ report[i].checks[1] =
              ResultErr("unknown", "degraded", Str("connection refused"))
        /\ chk[i][2] = Rejected(Undefined)
        /\ report[i].checks[2] = ResultErr("unknown", "degraded", Str("failed"))

\* C7: a slot is decided once, by the first of its two events: a check that
\* fulfils before its timer fires gives the slot its value unchanged, its timer
\* is cleared and never fires.
C7_FirstEventDecides ==
    /\ [](\A i \in Invs, s \in Slots :
            (/\ chk[i][s].st = "fulfilled"
             /\ timer[i][s].st # "fired"
             /\ ~ReactQueued(i, s)) =>
                /\ timer[i][s].st = "cleared"
                /\ w[i][s] = Fulfilled(chk[i][s].value)
                /\ Done(i) => report[i].checks[s] = chk[i][s].value)
    /\ [][\A i \in Invs, s \in Slots :
            /\ IsSettled(w[i][s]) => w'[i][s] = w[i][s]
            /\ settled[i][s] # NotSettled => settled'[i][s] = settled[i][s]
            /\ timer[i][s].st \in {"cleared", "fired"} => timer'[i][s] = timer[i][s]]_vars

\* the probe answered in time and the slot is its result
C7_Witness ==
    \E i \in Invs :
        /\ Done(i)
        /\ probe[i] = "done"
        /\ timer[i][2].st = "cleared"
        /\ report[i].checks[2] = Result("supabase", "ok")

\* C8: a check that lost its race is not cancelled by the timer; when it
\* settles later the returned report does not change and no rejection is left
\* unhandled.
C8_LateOutcomeDiscarded ==
    /\ [](~unhandled)
    /\ [][\A i \in Invs :
            /\ Done(i) => report'[i] = report[i]
            /\ pc[i] = "fulfilled" => pc'[i] = "fulfilled"
            /\ \A s \in Slots :
                  (timer[i][s].st = "armed" /\ timer'[i][s].st = "fired") =>
                      chk'[i][s] = chk[i][s]]_vars
    /\ [](\A i \in Invs, s \in Slots :
            (Done(i) /\ timer[i][s].st = "fired") =>
                /\ report[i].checks[s] = TimeoutResult
                /\ ~report[i].ready)

\* the check rejected after the report was returned, and its reaction has run
C8_Witness ==
    \E i \in Invs, s \in Slots :
        /\ Done(i)
        /\ timer[i][s].st = "fired"
        /\ chk[i][s].st = "rejected"
        /\ microtasks = <<>>

\* C9: both checks are started and both timers armed in the synchronous part
\* of readiness(), before it waits: once an invocation has begun, neither check
\* is unstarted, and both timers were armed at the invocation's instant.
C9_StartedTogether ==
    \A i \in Invs :
        pc[i] # "idle" =>
            \A s \in Slots :
                /\ chk[i][s] # NoPromise
                /\ w[i][s] # NoPromise
                /\ timer[i][s].st # "none"
                /\ timer[i][s].due = invokedAt[i] + TIMEOUT_MS

\* the probe is out and its timer armed while the env slot is still open
C9_Witness ==
    \E i \in Invs :
        /\ pc[i] = "awaiting"
        /\ w[i][1] = Pending /\ timer[i][1].st = "armed"
        /\ w[i][2] = Pending /\ timer[i][2].st = "armed"
        /\ probe[i] = "inflight"

\* absent or an empty string
MissingVar(key) == key \notin DOMAIN env \/ env[key] = ""

\* C10: checkEnv() returns {name: 'env', status: 'degraded', error: 'Missing
\* env vars: ' + the missing names in the required order, comma-joined} exactly
\* when a required key is absent or empty, and {name: 'env', status: 'ok'} with
\* no error field otherwise.
C10_CheckEnv ==
    [][\A i \in Invs :
        (pc[i] = "idle" /\ pc'[i] # "idle") =>
            LET u == MissingVar("SUPABASE_URL")
                k == MissingVar("SUPABASE_SERVICE_ROLE_KEY")
                r == chk'[i][1].value
            IN  /\ chk'[i][1].st = "fulfilled"
                /\ r.p.name = Str("env")
                /\ (u \/ k) <=> r.p.status = Str("degraded")
                /\ ~(u \/ k) <=> r.p.status = Str("ok")
                /\ ~(u \/ k) <=> DOMAIN r.p = {"name", "status"}
                /\ (u /\ ~k) => r.p.error = Str("Missing env vars: SUPABASE_URL")
                /\ (~u /\ k) =>
                      r.p.error = Str("Missing env vars: SUPABASE_SERVICE_ROLE_KEY")
                /\ (u /\ k) =>
                      r.p.error = Str(
                        "Missing env vars: SUPABASE_URL, SUPABASE_SERVICE_ROLE_KEY")]_vars

\* one key set to the empty string, the other present
C10_Witness ==
    \E i \in Invs :
        /\ chk[i][1] = Fulfilled(ResultErr("env", "degraded",
                          Str("Missing env vars: SUPABASE_SERVICE_ROLE_KEY")))
        /\ chk[i][2].st = "fulfilled"
        /\ chk[i][2].value.p.error = Str("Supabase env not configured")

NotConfiguredResult ==
    Obj([name |-> Str("supabase"), status |-> Str("degraded"),
         error |-> Str("Supabase env not configured")])
\* readiness() is being called by this step (and with it both checks)
Called(i) == pc[i] = "idle" /\ pc'[i] # "idle"
ConfigMissing == MissingVar("SUPABASE_URL") \/ MissingVar("SUPABASE_SERVICE_ROLE_KEY")

\* C11: called while SUPABASE_URL or SUPABASE_SERVICE_ROLE_KEY is absent or
\* empty, checkSupabase() returns {name: 'supabase', status: 'degraded',
\* error: 'Supabase env not configured'}, creates no client and issues no
\* probe, then or later.
C11_NoProbeUnconfigured ==
    /\ [][\A i \in Invs :
            (Called(i) /\ ConfigMissing) =>
                /\ chk'[i][2] = Fulfilled(NotConfiguredResult)
                /\ clients'[i] = 0
                /\ probes'[i] = 0
                /\ probe'[i] = "none"]_vars
    /\ [][\A i \in Invs :
            pc[i] # "idle" =>
                /\ clients'[i] = clients[i]
                /\ probes'[i] = probes[i]
                /\ (probe[i] = "none" => probe'[i] = "none")]_vars

\* reported and done, with no client and no probe
C11_Witness ==
    \E i \in Invs :
        /\ Done(i)
        /\ report[i].checks[2] = NotConfiguredResult
        /\ clients[i] = 0 /\ probes[i] = 0 /\ probe[i] = "none"

\* C12 as stated: with the configuration present every checkSupabase() call
\* issues exactly one probe.
C12_ExactlyOneProbe ==
    [][\A i \in Invs : (Called(i) /\ ~ConfigMissing) => probes'[i] = 1]_vars

\* C12, amended: with the configuration present every checkSupabase() call
\* creates one client and issues at most one probe, exactly one when
\* createClient returns and none when it throws (the result is then degraded);
\* no probe is issued later; the result is {name: 'supabase', status: 'ok'}
\* exactly when a probe was issued and answered without error.
C12_AtMostOneProbe ==
    /\ [][\A i \in Invs :
            (Called(i) /\ ~ConfigMissing) =>
                /\ clients'[i] = 1
                /\ \/ probes'[i] = 1 /\ probe'[i] = "inflight" /\ chk'[i][2] = Pending
                   \/ /\ probes'[i] = 0 /\ probe'[i] = "none"
                      /\ chk'[i][2].st = "fulfilled"
                      /\ chk'[i][2].value.p.status = Str("degraded")]_vars
    /\ [][\A i \in Invs : pc[i] # "idle" => probes'[i] = probes[i]]_vars
    /\ [](\A i \in Invs :
            /\ probes[i] <= 1
            /\ (probes[i] = 1) <=> (probe[i] # "none")
            /\ chk[i][2].st = "fulfilled" =>
                  (chk[i][2].value = Obj([name |-> Str("supabase"),
                                          status |-> Str("ok")])
                      <=> (probes[i] = 1 /\ response[i].kind = "data")))

\* one call probed once and got its answer, another could not create its client
C12_Witness ==
    \E i, j \in Invs :
        /\ probes[i] = 1 /\ response[i].kind = "data"
        /\ Done(i) /\ report[i].checks[2] = Result("supabase", "ok")
        /\ clients[j] = 1 /\ probes[j] = 0
        /\ chk[j][2].st = "fulfilled"

\* the message a failure carries, or the given fallback
MessageOr(r, fallback) ==
    IF r.t = "object" /\ "message" \in DOMAIN r.p
                      /\ r.p.message.t \notin {"undefined", "null"}
    THEN r.p.message ELSE Str(fallback)

\* C13: checkSupabase() never rejects; a failed probe (an error in the
\* response, a rejection) or a failed createClient ends in a fulfilled
\* {name: 'supabase', status: 'degraded', error: the failure's message or
\* 'Supabase unreachable'}; so a slot the supabase check decided itself is
\* named 'supabase', and 'unknown' there means its timer fired.
C13_SupabaseNeverRejects ==
    \A i \in Invs :
        /\ chk[i][2].st # "rejected"
        /\ chk[i][2].st = "fulfilled" => chk[i][2].value.p.name = Str("supabase")
        /\ response[i].kind \in {"error", "throws"} =>
              chk[i][2] = Fulfilled(
                  Obj([name |-> Str("supabase"), status |-> Str("degraded"),
                       error |-> MessageOr(response[i].err, "Supabase unreachable")]))
        /\ (clients[i] = 1 /\ probes[i] = 0) =>
              /\ chk[i][2].st = "fulfilled"
              /\ chk[i][2].value.p.status = Str("degraded")
              /\ chk[i][2].value.p.error.t = "string"
        /\ Done(i) =>
              /\ timer[i][2].st = "cleared" =>
                    report[i].checks[2].p.name = Str("supabase")
              /\ report[i].checks[2].p.name = Str("unknown") =>
                    timer[i][2].st = "fired"

\* a rejected probe without a message, reported under the check's own name
C13_Witness ==
    \E i \in Invs :
        /\ Done(i)
        /\ response[i] = [kind |-> "throws", err |-> Undefined]
        /\ timer[i][2].st = "cleared"
        /\ report[i].checks[2] =
              ResultErr("supabase", "degraded", Str("Supabase unreachable"))

\* C14: the uptime liveness() reports is floor((now - startedAt) / 1000), is
\* never negative and never decreases from one liveness() call to the next;
\* startedAt is set at construction and never written again.
C14_Uptime ==
    /\ [][startedAt' = startedAt]_vars
    /\ [](startedAt \in BootTimes /\ startedAt <= now)
    /\ [](live # NoReport => live.uptime \in Nat)
    /\ [][live' # live =>
            /\ live'.uptime * 1000 <= now - startedAt
            /\ now - startedAt < (live'.uptime + 1) * 1000]_vars
    /\ [][(live # NoReport /\ live' # NoReport) => live'.uptime >= live.uptime]_vars

\* a second has passed on a service constructed at a time that is no multiple of it
C14_Witness ==
    /\ live # NoReport
    /\ startedAt = 400
    /\ live.uptime = 1
    /\ now < 2000

\* C15: liveness() returns status 'ok' in every state (whatever process.env
\* holds, whatever the readiness invocations are doing) and changes nothing
\* but its own result: no check, no probe, no timer, no reaction.
C15_LivenessOk ==
    /\ [](live # NoReport => live.status = "ok")
    /\ [](microtasks = <<>> => ENABLED Liveness)
    /\ [][live' # live =>
            UNCHANGED <<env, now, pc, invokedAt, chk, probe, timer, w, settled,
                        report, microtasks, unhandled, calls, appVersion,
                        startedAt>>]_vars

\* called while the probe of an invocation was out, configuration incomplete
\* for the version, a degraded readiness report beside it
C15_Witness ==
    \E i \in Invs :
        /\ live # NoReport
        /\ live.uptime >= 1
        /\ live.version = Undefined
        /\ invokedAt[i] + 1000 <= startedAt + 1000 * live.uptime
        /\ pc[i] = "awaiting" /\ probe[i] = "inflight"

\* C16: in every report readiness() returns, the error member of every check
\* result is absent or a string, whatever a check rejected with and whatever
\* error the probe returned.
C16_ErrorIsString ==
    \A i \in Invs :
        Done(i) =>
            \A s \in Slots :
                LET c == report[i].checks[s]
                IN  "error" \in DOMAIN c.p => c.p.error.t \in {"string", "undefined"}

\* everything invocation i owns: its position, its checks, timers, wrappers,
\* allSettled results, report, client and probe
Own(i) ==
    <<pc[i], invokedAt[i], chk[i], probe[i], timer[i], w[i], settled[i],
      report[i], clients[i], probes[i], response[i]>>

\* C17: readiness() invocations are independent, also when they overlap: no
\* step touches the state of two invocations; a slot is decided by the
\* invocation's own timer (armed at its own start) or its own check; the
\* outcome reaches its own allSettled array, and the report is made of these.
C17_Independent ==
    /\ [][\A i, j \in Invs : i # j => (Own(i)' = Own(i) \/ Own(j)' = Own(j))]_vars
    /\ [](\A i \in Invs, s \in Slots :
            /\ timer[i][s].st # "none" => timer[i][s].due = invokedAt[i] + TIMEOUT_MS
            /\ IsSettled(w[i][s]) =>
                  \/ /\ timer[i][s].st = "fired"
                     /\ w[i][s] = timerCallback
                     /\ now >= invokedAt[i] + TIMEOUT_MS
                  \/ /\ timer[i][s].st = "cleared"
                     /\ IsSettled(chk[i][s])
                     /\ w[i][s] = thenCatch(chk[i][s]).settle
            /\ settled[i][s] # NotSettled =>
                  (IsSettled(w[i][s]) /\ settled[i][s] = w[i][s])
            /\ (IsSettled(w[i][s]) /\ ~Queued(i)) => settled[i][s] = w[i][s]
            /\ Done(i) => report[i].checks[s] = mapResult(settled[i][s]))

\* the second invocation started while the first was waiting for its probe;
\* the first timed out, the second is ready
C17_Witness ==
    /\ Done(1) /\ Done(2)
    /\ timer[1][2].st = "fired"
    /\ invokedAt[2] < invokedAt[1] + TIMEOUT_MS
    /\ ~report[1].ready
    /\ report[2].ready

\* C18: withTimeout clears its timer as soon as the wrapped check fulfils or
\* rejects (in the reaction on it): a timer never fires on a slot whose check
\* has settled, and once readiness() has returned none of its timers is still
\* armed: each has fired or been cleared.
C18_TimersCancelled ==
    /\ [][\A i \in Invs, s \in Slots :
            (timer[i][s].st = "armed" /\ timer'[i][s].st = "fired")
                => ~IsSettled(chk[i][s])]_vars
    /\ [](\A i \in Invs, s \in Slots :
            /\ (IsSettled(chk[i][s]) /\ ~ReactQueued(i, s))
                  => timer[i][s].st \in {"cleared", "fired"}
            /\ pc[i] = "fulfilled" => timer[i][s].st \in {"cleared", "fired"})

\* returned with one timer cleared by a rejection and the other fired
C18_Witness ==
    \E i \in Invs :
        /\ pc[i] = "fulfilled"
        /\ chk[i][1].st = "rejected" /\ timer[i][1].st = "cleared"
        /\ chk[i][2] = Pending /\ timer[i][2].st = "fired"

\* C19: checkEnv() has no suspension point: its promise is settled when
\* readiness() gets it, its timer never fires, and in every report slot 0 is
\* the env check's own result (name 'env'), never the synthesized
\* 'unknown'/'timeout' one; an 'unknown' entry is in slot 1 only.
C19_EnvSlot ==
    \A i \in Invs :
        /\ pc[i] # "idle" => chk[i][1].st = "fulfilled"
        /\ timer[i][1].st # "fired"
        /\ Done(i) =>
              /\ report[i].checks[1] = chk[i][1].value
              /\ Get(report[i].checks[1], "name") = Str("env")
              /\ report[i].checks[1] # TimeoutResult
              /\ \A s \in Slots :
                    Get(report[i].checks[s], "name") = Str("unknown") => s = 2

\* the probe timed out: 'unknown' in slot 1, the env result in slot 0
C19_Witness ==
    \E i \in Invs :
        /\ Done(i)
        /\ timer[i][1].st = "cleared"
        /\ timer[i][2].st = "fired"
        /\ Get(report[i].checks[1], "name") = Str("env")
        /\ report[i].checks[2] = TimeoutResult

\* the two slots of invocation i agree on the configuration: the env check is
\* degraded exactly when the supabase check answered 'Supabase env not
\* configured', in the checks' results and in the report
SlotsAgree(i) ==
    /\ (StatusOf(chk[i][1].value) = "degraded")
           <=> (chk[i][2] = Fulfilled(NotConfiguredResult))
    /\ Done(i) =>
          ((StatusOf(report[i].checks[1]) = "degraded")
               <=> (report[i].checks[2] = NotConfiguredResult))
\* a ready report rests on one probe, answered without error before the timer
ReadyByProbe(i) ==
    (Done(i) /\ report[i].ready) =>
        /\ probes[i] = 1
        /\ response[i].kind = "data"
        /\ timer[i][2].st = "cleared"

\* C20 as stated: the slots agree, a probe is issued if and only if slot 0 is
\* 'ok', and ready = true implies exactly one probe, which succeeded before
\* the timer fired.
C20_SlotsAgree ==
    \A i \in Invs :
        pc[i] # "idle" =>
            /\ SlotsAgree(i)
            /\ (probes[i] = 1) <=> (StatusOf(chk[i][1].value) = "ok")
            /\ ReadyByProbe(i)

\* C20, amended: the slots agree; a probe is issued only if slot 0 is 'ok';
\* when slot 0 is 'ok' and no probe was issued, createClient was called and
\* threw, and slot 1 is the supabase check's degraded result for that failure;
\* ready = true implies exactly one probe, which succeeded before the timer
\* fired.
C20_SlotsAgreeAmended ==
    \A i \in Invs :
        pc[i] # "idle" =>
            /\ SlotsAgree(i)
            /\ probes[i] <= 1
            /\ probes[i] = 1 => StatusOf(chk[i][1].value) = "ok"
            /\ (StatusOf(chk[i][1].value) = "ok" /\ probes[i] = 0) =>
                  /\ clients[i] = 1
                  /\ chk[i][2].st = "fulfilled"
                  /\ Get(chk[i][2].value, "name") = Str("supabase")
                  /\ StatusOf(chk[i][2].value) = "degraded"
                  /\ chk[i][2].value # NotConfiguredResult
            /\ ReadyByProbe(i)

\* one report with both slots degraded by the configuration, one ready by its
\* probe, one with slot 0 'ok' and no probe because createClient threw
C20_Witness ==
    \E i, j \in Invs :
        /\ Done(i) /\ Done(j)
        /\ StatusOf(report[i].checks[1]) = "ok"
        /\ probes[i] = 0 /\ clients[i] = 1
        /\ StatusOf(report[i].checks[2]) = "degraded"
        /\ \/ report[j].ready /\ probes[j] = 1
           \/ report[j].checks[2] = NotConfiguredResult /\ probes[j] = 0

====
